---- MODULE Spec2Model ----
(***************************************************************************)
(* Model of the Moltbook mint scheduler (safe_mint_scheduler.py) and of    *)
(* the mint and bind commands of the binding helper (agent.py).            *)
(*                                                                         *)
(* The scheduler is one synchronous thread.  Its position is pc; every     *)
(* blocking call (HTTP request, time.sleep, input) is a step of its own.   *)
(* Time is in whole seconds since the process started; created_at is the   *)
(* account's creation time on the same axis (negative: before the start).  *)
(* A JSON field that may be absent is a set: {} when absent, {v} when      *)
(* present.  Printed lines are records [kind, n], n the number they name.  *)
(* Tickers, amounts, keys and URLs are sequences of one-character strings. *)
(* The two tools are separate processes that share no state: each has its  *)
(* own specification, in which the other tool is not started.              *)
(***************************************************************************)
EXTENDS Integers, Sequences, FiniteSets, TLC

VARIABLES
    pc,                \* position of the scheduler thread
    exit_code,         \* process exit status: -1 while running
    amt,               \* args.amt
    interval_minutes,  \* args.interval_minutes
    count,             \* args.count
    cred,              \* state of the credentials file
    me,                \* the account snapshot returned by get_me
    min_interval,      \* run_scheduler: min_interval
    interval,          \* run_scheduler: interval
    sent,              \* run_scheduler: sent
    ok,                \* run_scheduler: ok (the result of post_once)
    status,            \* post_once: status of the last /posts response
    data,              \* post_once: body of the last /posts response
    wait_s,            \* post_once: wait_s
    answer,            \* submit_verification_if_needed: answer
    vstatus,           \* submit_verification_if_needed: status
    vresult,           \* submit_verification_if_needed: result
    now,               \* the clock, seconds since the process started
    waits,             \* the time.sleep calls made since the last /posts response
    intervalMsg,       \* the line printed when the interval was chosen
    lastMsg,           \* the last line printed
    posts,             \* number of POST /posts requests submitted
    meCalls,           \* number of GET /agents/me requests submitted
    floorCalls,        \* number of calls of platform_min_interval_minutes
    prompts,           \* operator prompts shown in the current post_once
    verifySubmits,     \* POST /verify requests submitted in the current post_once
    tick,              \* args.tick of the scheduler
    a_pc,              \* agent.py: position of the command being run
    a_exit,            \* agent.py: exit status, -1 while running
    a_args,            \* agent.py: the parsed arguments
    a_printed,         \* agent.py: the last line printed
    config,            \* agent.py: the file at CONFIG_PATH
    a_saves            \* agent.py: number of save_config calls

vars == <<pc, exit_code, amt, interval_minutes, count, cred, me, min_interval,
          interval, sent, ok, status, data, wait_s, answer, vstatus, vresult,
          now, waits, intervalMsg, lastMsg, posts, meCalls, floorCalls,
          prompts, verifySubmits, tick, a_pc, a_exit, a_args, a_printed,
          config, a_saves>>

\* What no step of the scheduler changes: its ticker and the other tool.
agentVars == <<a_pc, a_exit, a_args, a_printed, config, a_saves>>

(***************************************************************************)
(* Bounds and input domains                                                *)
(***************************************************************************)
MaxPosts == 3

AmtChoices == {0, 100}
IntervalChoices == {0, 10, 30, 150}
CountChoices == {-1, 0, 1, 2}
CredChoices == {"missing", "unreadable", "malformed", "no_key", "blank_key", "ok"}
AgeChoices == {3600, 86399, 86400, 86401}
RetrySecondsChoices == {{}, {0}, {45}, {150}}
RetryMinutesChoices == {{}, {0}, {2}}
FailStatuses == {404, 500}
OkStatuses == {200, 201}
VerifyStatuses == {200, 400}
CodeChoices == {"", "vc1"}
AnswerChoices == {"", " ", "525.00"}

Max(a, b) == IF a >= b THEN a ELSE b

Msg(k, n) == [kind |-> k, n |-> n]
NoMsg == Msg("none", 0)

NoData == [success |-> FALSE, verification_required |-> FALSE, code |-> "",
           retry_after_seconds |-> {}, retry_after_minutes |-> {}]
\* me holds the /agents/me answer: its status, success, and the agent's fields
NoMe == [code |-> 0, success |-> FALSE, is_claimed |-> FALSE, created_at |-> 0]
NoResult == [success |-> FALSE]

\* Python truthiness of an optional integer field: None and 0 are falsy.
Truthy(f) == f # {} /\ f # {0}
\* int(x or 0)
IntOrZero(f) == IF Truthy(f) THEN CHOOSE v \in f : TRUE ELSE 0

\* str.strip() on the operator's input
Strip(s) == IF s \in {"", " "} THEN "" ELSE s

\* The bodies the /posts endpoint can answer with, by status class.
RateLimitBodies ==
    {[NoData EXCEPT !.retry_after_seconds = s, !.retry_after_minutes = m] :
        s \in RetrySecondsChoices, m \in RetryMinutesChoices}
FailBodies == {[NoData EXCEPT !.success = b] : b \in BOOLEAN}
OkBodies ==
    {[NoData EXCEPT !.success = b, !.verification_required = v, !.code = c] :
        b \in BOOLEAN, v \in BOOLEAN, c \in CodeChoices}

\* The scheduler's process starts in main with its arguments parsed.
SchedulerInit(ticks, amts, intervals, counts, creds) ==
    /\ pc = "main"
    /\ exit_code = -1
    /\ amt \in amts
    /\ interval_minutes \in intervals
    /\ count \in counts
    /\ cred \in creds
    /\ me = NoMe
    /\ min_interval = 0
    /\ interval = 0
    /\ sent = 0
    /\ ok = FALSE
    /\ status = 0
    /\ data = NoData
    /\ wait_s = 0
    /\ answer = ""
    /\ vstatus = 0
    /\ vresult = NoResult
    /\ now = 0
    /\ waits = <<>>
    /\ intervalMsg = NoMsg
    /\ lastMsg = NoMsg
    /\ posts = 0
    /\ meCalls = 0
    /\ floorCalls = 0
    /\ prompts = 0
    /\ verifySubmits = 0
    /\ tick \in ticks

\* agent.py before a command runs: no arguments, nothing printed, no file.
NoArgs == [tick |-> <<>>, amt |-> <<>>, app_key |-> <<>>, api_base |-> <<>>,
           bot_api_key |-> {}]
NoLine == [kind |-> "none", tick |-> <<>>, amt |-> <<>>]
NoConfig == [kind |-> "absent", app_key |-> {}, api_base |-> {},
             bot_api_key |-> {}, other |-> {}]

\* agent.py is not run.
AgentOff ==
    /\ a_pc = "off"
    /\ a_exit = -1
    /\ a_args = NoArgs
    /\ a_printed = NoLine
    /\ config = NoConfig
    /\ a_saves = 0

\* The ticker of the README's examples.
DefaultTick == <<"C", "L", "A", "W">>

Init ==
    /\ SchedulerInit({DefaultTick}, AmtChoices, IntervalChoices, CountChoices,
                     CredChoices)
    /\ AgentOff

(***************************************************************************)
(* main: argument checks                                                   *)
(***************************************************************************)
Main ==
    /\ pc = "main"
    /\ IF amt <= 0
       THEN /\ lastMsg' = Msg("amt must be > 0", amt)
            /\ exit_code' = 1 /\ pc' = "fatal"
       ELSE IF interval_minutes <= 0
       THEN /\ lastMsg' = Msg("interval-minutes must be > 0", interval_minutes)
            /\ exit_code' = 1 /\ pc' = "fatal"
       ELSE IF count < 0
       THEN /\ lastMsg' = Msg("count must be >= 0", count)
            /\ exit_code' = 1 /\ pc' = "fatal"
       ELSE /\ pc' = "load_api_key"
            /\ UNCHANGED <<lastMsg, exit_code>>
    /\ UNCHANGED <<amt, interval_minutes, count, cred, me, min_interval, interval,
                   sent, ok, status, data, wait_s, answer, vstatus, vresult, now,
                   waits, intervalMsg, posts, meCalls, floorCalls, prompts,
                   verifySubmits>>
    /\ UNCHANGED <<tick, agentVars>>

(***************************************************************************)
(* run_scheduler: credentials, account snapshot, interval                  *)
(***************************************************************************)
\* load_api_key raises: no file (line 27), read_text or json.loads fails
\* (line 28), no api_key or one that is empty after strip() (lines 29-31)
load_api_key_raises_NoEmptyCheck(c) == c \in {"missing", "unreadable", "malformed"}

load_api_key_raises(c) ==
    c \in {"missing", "unreadable", "malformed", "no_key", "blank_key"}

LoadApiKey ==
    /\ pc = "load_api_key"
    /\ IF ~load_api_key_raises(cred)
       THEN /\ pc' = "get_me"
            /\ UNCHANGED <<lastMsg, exit_code>>
       ELSE /\ lastMsg' = Msg("credentials error", 0)
            /\ exit_code' = 1 /\ pc' = "fatal"
    /\ UNCHANGED <<amt, interval_minutes, count, cred, me, min_interval, interval,
                   sent, ok, status, data, wait_s, answer, vstatus, vresult, now,
                   waits, intervalMsg, posts, meCalls, floorCalls, prompts,
                   verifySubmits>>
    /\ UNCHANGED <<tick, agentVars>>

GetMeSubmit ==
    /\ pc = "get_me"
    /\ meCalls' = meCalls + 1
    /\ pc' = "await_me"
    /\ UNCHANGED <<exit_code, amt, interval_minutes, count, cred, me, min_interval,
                   interval, sent, ok, status, data, wait_s, answer, vstatus,
                   vresult, now, waits, intervalMsg, lastMsg, posts, floorCalls,
                   prompts, verifySubmits>>
    /\ UNCHANGED <<tick, agentVars>>

\* /agents/me answers: get_me raises unless code = 200 and success is truthy.
\* line 67
get_me_raises_IgnoresSuccess(code, success) == code # 200

get_me_raises(code, success) == code # 200 \/ ~success

GetMeResponse ==
    /\ pc = "await_me"
    /\ \E code \in {200, 401}, success \in BOOLEAN, claimed \in BOOLEAN,
          age \in AgeChoices :
          /\ me' = [code |-> code, success |-> success, is_claimed |-> claimed,
                    created_at |-> now - age]
          /\ IF get_me_raises(code, success)
             THEN /\ lastMsg' = Msg("/agents/me failed", code)
                  /\ exit_code' = 1 /\ pc' = "fatal"
             ELSE /\ pc' = "check_claimed"
                  /\ UNCHANGED <<lastMsg, exit_code>>
    /\ UNCHANGED <<amt, interval_minutes, count, cred, min_interval, interval,
                   sent, ok, status, data, wait_s, answer, vstatus, vresult, now,
                   waits, intervalMsg, posts, meCalls, floorCalls, prompts,
                   verifySubmits>>
    /\ UNCHANGED <<tick, agentVars>>

\* urlopen raises URLError; run_scheduler's "except Exception" turns it into exit 1.
GetMeNetworkError ==
    /\ pc = "await_me"
    /\ lastMsg' = Msg("urlopen error", 0)
    /\ exit_code' = 1
    /\ pc' = "fatal"
    /\ UNCHANGED <<amt, interval_minutes, count, cred, me, min_interval, interval,
                   sent, ok, status, data, wait_s, answer, vstatus, vresult, now,
                   waits, intervalMsg, posts, meCalls, floorCalls, prompts,
                   verifySubmits>>
    /\ UNCHANGED <<tick, agentVars>>

CheckClaimed ==
    /\ pc = "check_claimed"
    /\ IF ~me.is_claimed
       THEN /\ lastMsg' = Msg("agent is not claimed yet; cannot post", 0)
            /\ exit_code' = 1 /\ pc' = "fatal"
       ELSE /\ pc' = "min_interval"
            /\ UNCHANGED <<lastMsg, exit_code>>
    /\ UNCHANGED <<amt, interval_minutes, count, cred, me, min_interval, interval,
                   sent, ok, status, data, wait_s, answer, vstatus, vresult, now,
                   waits, intervalMsg, posts, meCalls, floorCalls, prompts,
                   verifySubmits>>
    /\ UNCHANGED <<tick, agentVars>>

\* platform_min_interval_minutes(created_at), evaluated at clock value t
platform_min_interval_minutes_le(created_at, t) ==
    IF t - created_at <= 24 * 3600 THEN 120 ELSE 30

platform_min_interval_minutes(created_at, t) ==
    IF t - created_at < 24 * 3600 THEN 120 ELSE 30

MinInterval ==
    /\ pc = "min_interval"
    /\ min_interval' = platform_min_interval_minutes(me.created_at, now)
    /\ floorCalls' = floorCalls + 1
    /\ pc' = "choose_interval"
    /\ UNCHANGED <<exit_code, amt, interval_minutes, count, cred, me, interval,
                   sent, ok, status, data, wait_s, answer, vstatus, vresult, now,
                   waits, intervalMsg, lastMsg, posts, meCalls, prompts,
                   verifySubmits>>
    /\ UNCHANGED <<tick, agentVars>>

\* lines 173-178: chosen, interval and the line printed about them
ChooseInterval_NoFloor ==
    /\ pc = "choose_interval"
    /\ interval' = interval_minutes
    /\ intervalMsg' = Msg("using interval", interval')
    /\ lastMsg' = intervalMsg'
    /\ pc' = "loop_init"
    /\ UNCHANGED <<exit_code, amt, interval_minutes, count, cred, me, min_interval,
                   sent, ok, status, data, wait_s, answer, vstatus, vresult, now,
                   waits, posts, meCalls, floorCalls, prompts, verifySubmits>>
    /\ UNCHANGED <<tick, agentVars>>

ChooseInterval ==
    /\ pc = "choose_interval"
    /\ LET chosen == interval_minutes IN
       /\ interval' = Max(chosen, min_interval)
       /\ intervalMsg' = IF chosen < min_interval
                         THEN Msg("requested is too fast; enforced", interval')
                         ELSE Msg("using interval", interval')
    /\ lastMsg' = intervalMsg'
    /\ pc' = "loop_init"
    /\ UNCHANGED <<exit_code, amt, interval_minutes, count, cred, me, min_interval,
                   sent, ok, status, data, wait_s, answer, vstatus, vresult, now,
                   waits, posts, meCalls, floorCalls, prompts, verifySubmits>>
    /\ UNCHANGED <<tick, agentVars>>

\* lines 180-182
LoopInit ==
    /\ pc = "loop_init"
    /\ sent' = 0
    /\ pc' = "post"
    /\ UNCHANGED <<exit_code, amt, interval_minutes, count, cred, me, min_interval,
                   interval, ok, status, data, wait_s, answer, vstatus, vresult,
                   now, waits, intervalMsg, lastMsg, posts, meCalls, floorCalls,
                   prompts, verifySubmits>>
    /\ UNCHANGED <<tick, agentVars>>

(***************************************************************************)
(* post_once                                                               *)
(***************************************************************************)
\* line 185: a new call of post_once; api_request submits POST /posts
SubmitPost ==
    /\ pc = "post"
    /\ posts < MaxPosts
    /\ posts' = posts + 1
    /\ answer' = ""
    /\ vstatus' = 0
    /\ vresult' = NoResult
    /\ prompts' = 0
    /\ verifySubmits' = 0
    /\ pc' = "await_post"
    /\ UNCHANGED <<exit_code, amt, interval_minutes, count, cred, me, min_interval,
                   interval, sent, ok, status, data, wait_s, now, waits,
                   intervalMsg, lastMsg, meCalls, floorCalls>>
    /\ UNCHANGED <<tick, agentVars>>

\* api_request returns (status, body): lines 53-62
PostResponse ==
    /\ pc = "await_post"
    /\ \/ status' = 429 /\ data' \in RateLimitBodies
       \/ status' \in FailStatuses /\ data' \in FailBodies
       \/ status' \in OkStatuses /\ data' \in OkBodies
    /\ waits' = <<>>
    /\ pc' = "post_resp"
    /\ UNCHANGED <<exit_code, amt, interval_minutes, count, cred, me, min_interval,
                   interval, sent, ok, wait_s, answer, vstatus, vresult, now,
                   intervalMsg, lastMsg, posts, meCalls, floorCalls, prompts,
                   verifySubmits>>
    /\ UNCHANGED <<tick, agentVars>>

\* urlopen raises URLError: api_request catches only HTTPError (line 56), and
\* neither post_once nor the loop of run_scheduler has a handler.
PostNetworkError ==
    /\ pc = "await_post"
    /\ lastMsg' = Msg("Traceback: URLError", 0)
    /\ exit_code' = 1
    /\ pc' = "crashed"
    /\ UNCHANGED <<amt, interval_minutes, count, cred, me, min_interval, interval,
                   sent, ok, status, data, wait_s, answer, vstatus, vresult, now,
                   waits, intervalMsg, posts, meCalls, floorCalls, prompts,
                   verifySubmits>>
    /\ UNCHANGED <<tick, agentVars>>

\* lines 136-142
backoff_wait_NoMax(retry_s, retry_m) ==
    LET w1 == IF Truthy(retry_m) THEN IntOrZero(retry_m) * 60
              ELSE IntOrZero(retry_s)
    IN  IF w1 <= 0 THEN 1800 ELSE w1

backoff_wait(retry_s, retry_m) ==
    LET w0 == IntOrZero(retry_s)
        w1 == IF Truthy(retry_m) THEN Max(w0, IntOrZero(retry_m) * 60) ELSE w0
    IN  IF w1 <= 0 THEN 1800 ELSE w1

\* lines 135-143
RateLimited_Fatal ==
    /\ pc = "post_resp"
    /\ status = 429
    /\ wait_s' = backoff_wait(data.retry_after_seconds, data.retry_after_minutes)
    /\ lastMsg' = Msg("rate limited", wait_s')
    /\ exit_code' = 1
    /\ pc' = "fatal"
    /\ UNCHANGED <<amt, interval_minutes, count, cred, me, min_interval,
                   interval, sent, ok, status, data, answer, vstatus, vresult,
                   now, waits, intervalMsg, posts, meCalls, floorCalls, prompts,
                   verifySubmits>>
    /\ UNCHANGED <<tick, agentVars>>

RateLimited ==
    /\ pc = "post_resp"
    /\ status = 429
    /\ wait_s' = backoff_wait(data.retry_after_seconds, data.retry_after_minutes)
    /\ lastMsg' = Msg("rate limited; sleeping", wait_s')
    /\ pc' = "backoff"
    /\ UNCHANGED <<exit_code, amt, interval_minutes, count, cred, me, min_interval,
                   interval, sent, ok, status, data, answer, vstatus, vresult,
                   now, waits, intervalMsg, posts, meCalls, floorCalls, prompts,
                   verifySubmits>>
    /\ UNCHANGED <<tick, agentVars>>

\* lines 144-145: time.sleep(wait_s); return False
Backoff_NoSleep ==
    /\ pc = "backoff"
    /\ ok' = FALSE
    /\ pc' = "on_result"
    /\ UNCHANGED <<exit_code, amt, interval_minutes, count, cred, me, min_interval,
                   interval, sent, status, data, wait_s, answer, vstatus, vresult,
                   now, waits, intervalMsg, lastMsg, posts, meCalls, floorCalls,
                   prompts, verifySubmits>>
    /\ UNCHANGED <<tick, agentVars>>

Backoff ==
    /\ pc = "backoff"
    /\ now' = now + wait_s
    /\ waits' = Append(waits, [kind |-> "backoff", secs |-> wait_s])
    /\ ok' = FALSE
    /\ pc' = "on_result"
    /\ UNCHANGED <<exit_code, amt, interval_minutes, count, cred, me, min_interval,
                   interval, sent, status, data, wait_s, answer, vstatus, vresult,
                   intervalMsg, lastMsg, posts, meCalls, floorCalls, prompts,
                   verifySubmits>>
    /\ UNCHANGED <<tick, agentVars>>

\* line 147
post_failed(st, d) == st < 200 \/ st >= 300 \/ ~d.success

\* lines 147-149
PostFailed_Fatal ==
    /\ pc = "post_resp"
    /\ status # 429
    /\ post_failed(status, data)
    /\ lastMsg' = Msg("post failed", status)
    /\ exit_code' = 1
    /\ pc' = "fatal"
    /\ UNCHANGED <<amt, interval_minutes, count, cred, me, min_interval,
                   interval, sent, ok, status, data, wait_s, answer, vstatus, vresult,
                   now, waits, intervalMsg, posts, meCalls, floorCalls, prompts,
                   verifySubmits>>
    /\ UNCHANGED <<tick, agentVars>>

PostFailed ==
    /\ pc = "post_resp"
    /\ status # 429
    /\ post_failed(status, data)
    /\ lastMsg' = Msg("post failed", status)
    /\ ok' = FALSE
    /\ pc' = "on_result"
    /\ UNCHANGED <<exit_code, amt, interval_minutes, count, cred, me, min_interval,
                   interval, sent, status, data, wait_s, answer, vstatus, vresult,
                   now, waits, intervalMsg, posts, meCalls, floorCalls, prompts,
                   verifySubmits>>
    /\ UNCHANGED <<tick, agentVars>>

\* lines 151-152
PostCreated ==
    /\ pc = "post_resp"
    /\ status # 429
    /\ ~post_failed(status, data)
    /\ lastMsg' = Msg("created post", posts)
    /\ pc' = "verify"
    /\ UNCHANGED <<exit_code, amt, interval_minutes, count, cred, me, min_interval,
                   interval, sent, ok, status, data, wait_s, answer, vstatus,
                   vresult, now, waits, intervalMsg, posts, meCalls, floorCalls,
                   prompts, verifySubmits>>
    /\ UNCHANGED <<tick, agentVars>>

(***************************************************************************)
(* submit_verification_if_needed                                           *)
(***************************************************************************)
\* lines 90-100
VerificationCheck_MissingCodeOk ==
    /\ pc = "verify"
    /\ IF ~data.verification_required \/ data.code = ""
       THEN /\ ok' = TRUE
            /\ pc' = "on_result"
            /\ UNCHANGED lastMsg
       ELSE /\ lastMsg' = Msg("Verification required by Moltbook.", 0)
            /\ pc' = "prompt"
            /\ UNCHANGED ok
    /\ UNCHANGED <<exit_code, amt, interval_minutes, count, cred, me, min_interval,
                   interval, sent, status, data, wait_s, answer, vstatus, vresult,
                   now, waits, intervalMsg, posts, meCalls, floorCalls, prompts,
                   verifySubmits>>
    /\ UNCHANGED <<tick, agentVars>>

VerificationCheck ==
    /\ pc = "verify"
    /\ IF ~data.verification_required
       THEN /\ ok' = TRUE
            /\ pc' = "on_result"
            /\ UNCHANGED lastMsg
       ELSE IF data.code = ""
       THEN /\ lastMsg' = Msg("verification required but code missing", 0)
            /\ ok' = FALSE
            /\ pc' = "on_result"
       ELSE /\ lastMsg' = Msg("Verification required by Moltbook.", 0)
            /\ pc' = "prompt"
            /\ UNCHANGED ok
    /\ UNCHANGED <<exit_code, amt, interval_minutes, count, cred, me, min_interval,
                   interval, sent, status, data, wait_s, answer, vstatus, vresult,
                   now, waits, intervalMsg, posts, meCalls, floorCalls, prompts,
                   verifySubmits>>
    /\ UNCHANGED <<tick, agentVars>>

\* lines 103-106: the operator types a line
Prompt_AsksAgainOnEmpty ==
    /\ pc = "prompt"
    /\ \E raw \in AnswerChoices : answer' = Strip(raw)
    /\ prompts' = prompts + 1
    /\ pc' = IF answer' = "" THEN "prompt" ELSE "verify_submit"
    /\ UNCHANGED <<exit_code, amt, interval_minutes, count, cred, me, min_interval,
                   interval, sent, ok, status, data, wait_s, vstatus, vresult, now,
                   waits, intervalMsg, lastMsg, posts, meCalls, floorCalls,
                   verifySubmits>>
    /\ UNCHANGED <<tick, agentVars>>

Prompt ==
    /\ pc = "prompt"
    /\ \E raw \in AnswerChoices : answer' = Strip(raw)
    /\ prompts' = prompts + 1
    /\ IF answer' = ""
       THEN /\ lastMsg' = Msg("empty answer, stop", 0)
            /\ ok' = FALSE
            /\ pc' = "on_result"
       ELSE /\ pc' = "verify_submit"
            /\ UNCHANGED <<lastMsg, ok>>
    /\ UNCHANGED <<exit_code, amt, interval_minutes, count, cred, me, min_interval,
                   interval, sent, status, data, wait_s, vstatus, vresult, now,
                   waits, intervalMsg, posts, meCalls, floorCalls, verifySubmits>>
    /\ UNCHANGED <<tick, agentVars>>

\* lines 108-113: api_request submits POST /verify
VerifySubmit ==
    /\ pc = "verify_submit"
    /\ verifySubmits' = verifySubmits + 1
    /\ pc' = "await_verify"
    /\ UNCHANGED <<exit_code, amt, interval_minutes, count, cred, me, min_interval,
                   interval, sent, ok, status, data, wait_s, answer, vstatus,
                   vresult, now, waits, intervalMsg, lastMsg, posts, meCalls,
                   floorCalls, prompts>>
    /\ UNCHANGED <<tick, agentVars>>

\* line 114
verification_ok_StatusOnly(st, res) == 200 <= st /\ st < 300

verification_ok(st, res) == 200 <= st /\ st < 300 /\ res.success

\* lines 114-118
VerifyResponse ==
    /\ pc = "await_verify"
    /\ vstatus' \in VerifyStatuses
    /\ vresult' \in [success : BOOLEAN]
    /\ IF verification_ok(vstatus', vresult')
       THEN /\ lastMsg' = Msg("verified", 0)
            /\ ok' = TRUE
       ELSE /\ lastMsg' = Msg("verify failed", vstatus')
            /\ ok' = FALSE
    /\ pc' = "on_result"
    /\ UNCHANGED <<exit_code, amt, interval_minutes, count, cred, me, min_interval,
                   interval, sent, status, data, wait_s, answer, now, waits,
                   intervalMsg, posts, meCalls, floorCalls, prompts,
                   verifySubmits>>
    /\ UNCHANGED <<tick, agentVars>>

\* urlopen raises URLError in the /verify call: no handler up to the top level
VerifyNetworkError ==
    /\ pc = "await_verify"
    /\ lastMsg' = Msg("Traceback: URLError", 0)
    /\ exit_code' = 1
    /\ pc' = "crashed"
    /\ UNCHANGED <<amt, interval_minutes, count, cred, me, min_interval, interval,
                   sent, ok, status, data, wait_s, answer, vstatus, vresult, now,
                   waits, intervalMsg, posts, meCalls, floorCalls, prompts,
                   verifySubmits>>
    /\ UNCHANGED <<tick, agentVars>>

(***************************************************************************)
(* run_scheduler: the rest of the loop body                                *)
(***************************************************************************)
OnResult_ResetOnFailure ==
    /\ pc = "on_result"
    /\ IF ok
       THEN /\ sent' = sent + 1
            /\ lastMsg' = Msg("posted count", sent')
       ELSE /\ sent' = 0
            /\ UNCHANGED lastMsg
    /\ pc' = "check_count"
    /\ UNCHANGED <<exit_code, amt, interval_minutes, count, cred, me, min_interval,
                   interval, ok, status, data, wait_s, answer, vstatus, vresult,
                   now, waits, intervalMsg, posts, meCalls, floorCalls, prompts,
                   verifySubmits>>
    /\ UNCHANGED <<tick, agentVars>>

\* lines 193-195
OnResult ==
    /\ pc = "on_result"
    /\ IF ok
       THEN /\ sent' = sent + 1
            /\ lastMsg' = Msg("posted count", sent')
       ELSE UNCHANGED <<sent, lastMsg>>
    /\ pc' = "check_count"
    /\ UNCHANGED <<exit_code, amt, interval_minutes, count, cred, me, min_interval,
                   interval, ok, status, data, wait_s, answer, vstatus, vresult,
                   now, waits, intervalMsg, posts, meCalls, floorCalls, prompts,
                   verifySubmits>>
    /\ UNCHANGED <<tick, agentVars>>

\* line 197
should_stop_NoBoundTest(n, s) == s >= n

should_stop(n, s) == n > 0 /\ s >= n

\* lines 197-202
CheckCount_RetriesAtOnce ==
    /\ pc = "check_count"
    /\ IF should_stop(count, sent)
       THEN /\ lastMsg' = Msg("done", 0)
            /\ exit_code' = 0
            /\ pc' = "done"
       ELSE /\ pc' = IF ok THEN "sleep" ELSE "post"
            /\ UNCHANGED <<exit_code, lastMsg>>
    /\ UNCHANGED <<amt, interval_minutes, count, cred, me, min_interval, interval,
                   sent, ok, status, data, wait_s, answer, vstatus, vresult, now,
                   waits, intervalMsg, posts, meCalls, floorCalls, prompts,
                   verifySubmits>>
    /\ UNCHANGED <<tick, agentVars>>

CheckCount ==
    /\ pc = "check_count"
    /\ IF should_stop(count, sent)
       THEN /\ lastMsg' = Msg("done", 0)
            /\ exit_code' = 0
            /\ pc' = "done"
       ELSE /\ lastMsg' = Msg("sleeping", interval * 60)
            /\ pc' = "sleep"
            /\ UNCHANGED exit_code
    /\ UNCHANGED <<amt, interval_minutes, count, cred, me, min_interval, interval,
                   sent, ok, status, data, wait_s, answer, vstatus, vresult, now,
                   waits, intervalMsg, posts, meCalls, floorCalls, prompts,
                   verifySubmits>>
    /\ UNCHANGED <<tick, agentVars>>

\* line 203: time.sleep(sleep_seconds), then the next iteration
Sleep_RecomputesFloor ==
    /\ pc = "sleep"
    /\ min_interval' = platform_min_interval_minutes(me.created_at, now)
    /\ interval' = Max(interval_minutes, min_interval')
    /\ floorCalls' = floorCalls + 1
    /\ now' = now + interval' * 60
    /\ waits' = Append(waits, [kind |-> "interval", secs |-> interval' * 60])
    /\ pc' = "post"
    /\ UNCHANGED <<exit_code, amt, interval_minutes, count, cred, me, sent, ok,
                   status, data, wait_s, answer, vstatus, vresult, intervalMsg,
                   lastMsg, posts, meCalls, prompts, verifySubmits>>
    /\ UNCHANGED <<tick, agentVars>>

Sleep ==
    /\ pc = "sleep"
    /\ now' = now + interval * 60
    /\ waits' = Append(waits, [kind |-> "interval", secs |-> interval * 60])
    /\ pc' = "post"
    /\ UNCHANGED <<exit_code, amt, interval_minutes, count, cred, me, min_interval,
                   interval, sent, ok, status, data, wait_s, answer, vstatus,
                   vresult, intervalMsg, lastMsg, posts, meCalls, floorCalls,
                   prompts, verifySubmits>>
    /\ UNCHANGED <<tick, agentVars>>

(***************************************************************************)
(* Specifications                                                          *)
(***************************************************************************)
\* Steps the scheduler thread takes by itself.
Internal ==
    \/ Main
    \/ LoadApiKey
    \/ GetMeSubmit
    \/ CheckClaimed
    \/ MinInterval
    \/ ChooseInterval
    \/ LoopInit
    \/ SubmitPost
    \/ RateLimited
    \/ Backoff
    \/ PostFailed
    \/ PostCreated
    \/ VerificationCheck
    \/ VerifySubmit
    \/ OnResult
    \/ CheckCount
    \/ Sleep

\* urlopen returns or raises within its timeout.
NetworkReturns ==
    \/ GetMeResponse
    \/ GetMeNetworkError
    \/ PostResponse
    \/ PostNetworkError
    \/ VerifyResponse
    \/ VerifyNetworkError

Next ==
    \/ Internal
    \/ NetworkReturns
    \/ Prompt

Spec == Init /\ [][Next]_vars

\* The thread runs, sleeps end, and every HTTP call returns or raises (timeout=30).
\* Nothing makes the operator answer a prompt.
FairSpec == Spec /\ WF_vars(Internal) /\ WF_vars(NetworkReturns)

(***************************************************************************)
(* Properties                                                              *)
(***************************************************************************)
LoopPCs == {"post", "await_post", "post_resp", "backoff", "verify", "prompt",
            "verify_submit", "await_verify", "on_result", "check_count", "sleep"}
TerminalPCs == {"done", "fatal", "crashed"}

\* C1: the loop returns 0 exactly when a count N > 0 was requested and the
\* success counter has reached N: the counter never exceeds N, it equals N when
\* the loop stops, a counter that has reached N is followed by the stop and not
\* by another sleep or POST, and with count = 0 the loop never returns 0.
C1_StopsExactlyAtCount ==
    /\ (pc = "done" <=> exit_code = 0)
    /\ (pc = "done" => count > 0 /\ sent = count)
    /\ (count > 0 => sent <= count)
    /\ (count > 0 /\ sent = count => pc \in {"check_count", "done"})
    /\ (count = 0 => pc # "done")

\* Two successes out of three attempts end a run with count = 2.
C1_Witness == pc = "done" /\ count = 2 /\ sent = 2 /\ posts = 3

\* The response of the current attempt says: post accepted and the
\* verification, if one was required, passed.
FullySuccessful ==
    /\ status >= 200 /\ status <= 299
    /\ data.success
    /\ data.verification_required =>
          /\ data.code # ""
          /\ answer # ""
          /\ vstatus >= 200 /\ vstatus <= 299
          /\ vresult.success

\* C2: the success counter grows by exactly 1 in the step that concludes a
\* fully successful attempt, and is left unchanged by every other step; it
\* never decreases.
C2_CounterStep ==
    [][/\ (pc = "on_result" /\ FullySuccessful => sent' = sent + 1)
       /\ (~(pc = "on_result" /\ FullySuccessful) => sent' = sent)
       /\ sent' >= sent]_vars

\* One attempt has counted, and the latest one, whose verification the server
\* rejected, has not.
C2_Witness ==
    /\ pc = "check_count" /\ sent = 1 /\ posts = 3
    /\ status = 200 /\ data.success /\ data.verification_required
    /\ vstatus = 200 /\ ~vresult.success

BackoffWait == [kind |-> "backoff", secs |-> wait_s]
IntervalWait == [kind |-> "interval", secs |-> interval * 60]

\* C3 as stated: back at the head of the loop after a 429, the only wait
\* made since that response is the backoff wait, and an interval sleep is
\* made only after a response other than 429.
C3_OnlyBackoffAfter429 ==
    /\ (pc = "post" /\ posts > 0 /\ status = 429 => waits = <<BackoffWait>>)
    /\ (\E i \in 1..Len(waits) : waits[i].kind = "interval") => status # 429

\* C3 amended: back at the head of the loop after a 429, the waits made
\* since that response are the backoff wait followed by the full interval
\* sleep; after any other response the interval sleep alone.
C3_BackoffThenInterval ==
    pc = "post" /\ posts > 0 =>
        waits = IF status = 429 THEN <<BackoffWait, IntervalWait>>
                ELSE <<IntervalWait>>

C3_Witness ==
    pc = "post" /\ posts = 1 /\ status = 429 /\ Len(waits) = 2 /\ wait_s = 45

\* An absent field counts as 0.
FieldOrZero(f) == IF f = {} THEN 0 ELSE CHOOSE v \in f : TRUE

\* C4: the backoff wait is max(retry_after_seconds, 60 * retry_after_minutes),
\* absent fields counting as 0, and 1800 when that maximum is 0; it is
\* always positive.
C4_BackoffWait ==
    pc = "backoff" =>
        LET s == FieldOrZero(data.retry_after_seconds)
            m == FieldOrZero(data.retry_after_minutes)
            larger == IF s >= 60 * m THEN s ELSE 60 * m
        IN  /\ wait_s = IF larger = 0 THEN 1800 ELSE larger
            /\ wait_s > 0
            /\ (s = 45 /\ data.retry_after_minutes = {} => wait_s = 45)
            /\ (data.retry_after_seconds = {} /\ m = 2 => wait_s = 120)
            /\ (data.retry_after_seconds = {} /\ data.retry_after_minutes = {}
                  => wait_s = 1800)

\* Both fields present, the seconds being the larger.
C4_Witness ==
    /\ pc = "backoff" /\ wait_s = 150
    /\ data.retry_after_seconds = {150} /\ data.retry_after_minutes = {2}

\* The steps of an attempt from its response to the next POST.
AfterResponsePCs == {"post_resp", "backoff", "on_result", "check_count", "sleep"}

\* C5: a 429 response is never terminal: no step from the 429 response up to
\* the next POST ends the run or sets an exit status, and, while the bound on
\* posts allows one, a further POST is eventually submitted.
C5_RateLimitNeverTerminal ==
    /\ [][status = 429 /\ pc \in AfterResponsePCs
            => pc' \notin TerminalPCs /\ exit_code' = -1]_vars
    /\ [](status = 429 /\ pc = "on_result" => ~ok)
    /\ (pc = "post_resp" /\ status = 429 /\ posts < MaxPosts) ~> (pc = "await_post")

\* A third POST is in flight after two consecutive 429 responses, each with
\* a backoff of 45 s and an interval sleep behind it.
C5_Witness ==
    /\ pc = "await_post" /\ posts = 3 /\ status = 429 /\ sent = 0
    /\ wait_s = 45 /\ now = 2 * (interval * 60 + 45)

SessionStartAge == 0 - me.created_at

\* C6: every interval sleep lasts effective_interval * 60 seconds, and the
\* effective interval comes from one account fetch and one floor computation
\* at session start: no step of the loop changes it, also when the account
\* has passed 24 hours of age in the meantime.
C6_IntervalFixedPerSession ==
    /\ [](pc \in LoopPCs =>
            /\ meCalls = 1
            /\ floorCalls = 1
            /\ min_interval = IF SessionStartAge < 86400 THEN 120 ELSE 30
            /\ interval = IF interval_minutes >= min_interval
                          THEN interval_minutes ELSE min_interval
            /\ \A i \in 1..Len(waits) :
                  waits[i].kind = "interval" => waits[i].secs = interval * 60)
    /\ [][(pc \in LoopPCs) => (interval' = interval /\ min_interval' = min_interval
                              /\ meCalls' = meCalls /\ floorCalls' = floorCalls)]_vars
    /\ [][pc = "sleep" => now' = now + interval * 60]_vars

\* The account was under 24 hours old at session start, is over 24 hours old
\* now, and the sleep just made still used the 120-minute floor.
C6_Witness ==
    /\ pc = "post" /\ posts = 2
    /\ SessionStartAge < 86400 /\ now - me.created_at >= 86400
    /\ min_interval = 120 /\ interval = 120
    /\ waits = <<[kind |-> "interval", secs |-> 7200]>>

\* C7: the effective interval is max(requested, floor) with floor in
\* {30, 120}, so never below the floor, and when requested < floor a "too
\* fast" line naming the enforced interval is printed before the first POST.
C7_EffectiveInterval ==
    /\ pc \in LoopPCs \cup {"loop_init"} =>
          /\ min_interval \in {30, 120}
          /\ interval_minutes >= 1
          /\ interval >= min_interval
          /\ interval >= interval_minutes
          /\ interval \in {interval_minutes, min_interval}
          /\ interval_minutes < min_interval =>
                intervalMsg = Msg("requested is too fast; enforced", min_interval)
    /\ posts > 0 => intervalMsg # NoMsg

\* Account one hour old, 10 minutes requested: 120 enforced and announced,
\* no POST submitted yet.
C7_Witness ==
    /\ pc = "post" /\ posts = 0
    /\ SessionStartAge = 3600 /\ interval_minutes = 10 /\ interval = 120
    /\ intervalMsg = Msg("requested is too fast; enforced", 120)

\* C8: the platform minimum is 120 minutes when the account age in whole
\* seconds is under 24 hours and 30 minutes otherwise: 86399 s gives 120,
\* 86400 s and 86401 s give 30.
C8_PlatformMinInterval ==
    pc = "choose_interval" =>
        LET age == now - me.created_at IN
        /\ age < 86400 => min_interval = 120
        /\ age >= 86400 => min_interval = 30
        /\ age = 86399 => min_interval = 120
        /\ age = 86400 => min_interval = 30
        /\ age = 86401 => min_interval = 30

C8_Witness ==
    pc = "choose_interval" /\ now - me.created_at = 86400 /\ min_interval = 30

\* The last /posts response is a failure other than a rate limit.
FailedPost == status # 429 /\ (status < 200 \/ status > 299 \/ ~data.success)

\* C9: a failed post (non-2xx other than 429, or success=false) is not
\* fatal: it is reported, the counter is unchanged, no prompt is shown and
\* no verification is sent, the loop goes on to the interval sleep, which is
\* the only wait before the next POST, and that POST is submitted while the
\* bound on posts allows one.
C9_FailedPostNonFatal ==
    /\ [](FailedPost /\ pc = "on_result" =>
            /\ ~ok
            /\ lastMsg = Msg("post failed", status)
            /\ prompts = 0
            /\ verifySubmits = 0
            /\ waits = <<>>)
    /\ [](FailedPost /\ pc = "post" /\ posts > 0 => waits = <<IntervalWait>>)
    /\ [][FailedPost /\ pc \in AfterResponsePCs =>
            (sent' = sent /\ pc' \notin TerminalPCs
             /\ (pc = "check_count" => pc' = "sleep"))]_vars
    /\ (pc = "post_resp" /\ FailedPost /\ posts < MaxPosts) ~> (pc = "await_post")

\* A 2xx answer with success=false that asked for verification: no prompt
\* was shown, and the next POST is in flight.
C9_Witness ==
    /\ pc = "await_post" /\ posts = 2
    /\ status = 200 /\ ~data.success /\ data.verification_required
    /\ prompts = 0 /\ sent = 0 /\ waits = <<IntervalWait>>

\* C10: a network failure (no HTTP response) during POST /posts or
\* POST /verify in the loop is an ordinary failed attempt: the scheduler
\* neither crashes nor exits, and goes on to the interval sleep.
C10_NetworkFailureIsOrdinaryFailure ==
    /\ pc # "crashed"
    /\ lastMsg.kind = "Traceback: URLError" => pc \in LoopPCs /\ exit_code = -1

\* The last /posts response was accepted and asks for verification.
VerificationAsked ==
    status >= 200 /\ status <= 299 /\ data.success /\ data.verification_required

\* C11: when an accepted post asks for verification, the attempt succeeds
\* only if a code was given, the operator's answer is not empty and the
\* verification request came back 2xx with success=true; in the three failing
\* cases the counter is unchanged, the run does not end, and the interval
\* sleep and the next POST follow while the bound on posts allows one.
C11_VerificationDecidesAttempt ==
    /\ [](pc = "on_result" /\ VerificationAsked =>
            (ok <=> /\ data.code # ""
                    /\ answer # ""
                    /\ vstatus >= 200 /\ vstatus <= 299
                    /\ vresult.success))
    /\ [](pc = "on_result" /\ VerificationAsked /\ ~ok =>
            lastMsg.kind \in {"verification required but code missing",
                              "empty answer, stop", "verify failed"})
    /\ [][VerificationAsked /\ ~ok /\ pc \in {"on_result", "check_count", "sleep"} =>
            (sent' = sent /\ pc' \notin TerminalPCs
             /\ (pc = "check_count" => pc' = "sleep"))]_vars
    /\ (pc = "on_result" /\ VerificationAsked /\ ~ok /\ posts < MaxPosts)
          ~> (pc = "await_post")

\* The server rejected the operator's answer; the interval sleep has been
\* made and the loop is back at its head with nothing counted.
C11_Witness ==
    /\ pc = "post" /\ posts = 1 /\ sent = 0 /\ VerificationAsked
    /\ answer = "525.00" /\ vstatus = 200 /\ ~vresult.success
    /\ waits = <<IntervalWait>>

\* C12: with a credentials file that is missing, unreadable, malformed or
\* without a non-empty api_key, the run ends with status 1 and no network
\* call (account-info, post or verification) is ever made.
C12_BadCredentialsNoNetwork ==
    cred # "ok" =>
        /\ meCalls = 0 /\ posts = 0 /\ verifySubmits = 0
        /\ pc \in {"main", "load_api_key", "fatal"}
        /\ exit_code = IF pc = "fatal" THEN 1 ELSE -1

\* A file without api_key: refused by load_api_key itself, after main's
\* argument checks passed.
C12_Witness ==
    /\ cred = "no_key" /\ pc = "fatal" /\ exit_code = 1
    /\ lastMsg = Msg("credentials error", 0) /\ meCalls = 0

\* The account-info call returned success and the account is claimed.
AccountAccepted == me.code = 200 /\ me.success /\ me.is_claimed

\* C13: no POST is submitted unless the account-info call returned success
\* and the account is claimed; otherwise (other status, success false,
\* network failure, not claimed) the run ends with status 1 after exactly
\* one account-info call and no post. The call is never repeated.
C13_NoPostWithoutClaimedAccount ==
    /\ meCalls <= 1
    /\ posts > 0 \/ pc \in LoopPCs => meCalls = 1 /\ AccountAccepted
    /\ meCalls = 1 /\ pc # "await_me" /\ ~AccountAccepted =>
          /\ posts = 0 /\ verifySubmits = 0
          /\ pc \in {"check_claimed", "fatal"}
          /\ pc = "check_claimed" => me.code = 200 /\ me.success
          /\ pc = "fatal" => exit_code = 1

\* The call succeeded but the account is not claimed: exit 1, one call, no post.
C13_Witness ==
    /\ pc = "fatal" /\ exit_code = 1 /\ meCalls = 1 /\ posts = 0
    /\ me.code = 200 /\ me.success /\ ~me.is_claimed
    /\ lastMsg = Msg("agent is not claimed yet; cannot post", 0)

VerificationPCs == {"prompt", "verify_submit", "await_verify"}

\* C17: no verification challenge is retried: one post attempt prompts the
\* operator at most once and sends at most one verification request, and
\* only after a prompt; it prompts and sends nothing when the accepted post
\* does not ask for verification or gives no code; and once an attempt is
\* concluded no prompt or verification request follows before a new POST.
C17_NoVerificationRetry ==
    /\ [](/\ prompts <= 1
          /\ verifySubmits <= prompts
          /\ pc \in VerificationPCs => VerificationAsked /\ data.code # "")
    /\ [](pc \in {"on_result", "check_count", "sleep", "post"} /\ posts > 0
            /\ (~VerificationAsked \/ data.code = "")
          => prompts = 0 /\ verifySubmits = 0)
    /\ [][prompts' > prompts => (pc = "prompt" /\ prompts = 0)]_vars
    /\ [][verifySubmits' > verifySubmits =>
            (pc = "verify_submit" /\ verifySubmits = 0 /\ vstatus = 0)]_vars
    /\ [][(pc \in {"on_result", "check_count", "sleep", "post"}) =>
            (pc' \notin VerificationPCs /\ prompts' <= prompts
             /\ verifySubmits' <= verifySubmits)]_vars

\* A second POST, after a first attempt that did not count, was accepted
\* without verification: nothing was prompted or sent for it.
C17_Witness ==
    /\ pc = "on_result" /\ posts = 2 /\ sent = 0 /\ ok
    /\ status = 200 /\ data.success /\ ~data.verification_required
    /\ prompts = 0 /\ verifySubmits = 0 /\ vstatus = 0

\* C18: two consecutive POST submissions are separated by an interval
\* sleep of effective_interval * 60 seconds, whatever the earlier outcome;
\* the first POST has no sleep before it, and no sleep follows the attempt
\* that reaches the requested count.
C18_IntervalBetweenPosts ==
    /\ [](pc = "await_post" /\ posts = 1 => waits = <<>> /\ now = 0)
    /\ [](pc = "await_post" /\ posts > 1 =>
            /\ Len(waits) >= 1
            /\ waits[Len(waits)] = IntervalWait
            /\ interval >= min_interval /\ min_interval \in {30, 120})
    /\ [](pc = "done" => waits = <<>>)
    /\ [][pc' = "await_post" /\ pc # "await_post" =>
            (posts = 0 \/ (pc = "post" /\ waits # <<>>
                           /\ waits[Len(waits)].kind = "interval"))]_vars
    /\ [][now' # now =>
            (pc \in {"backoff", "sleep"} /\ now' > now
             /\ (pc = "sleep" => now' = now + interval * 60))]_vars

\* A third POST is in flight; nothing has counted, the attempt before it
\* failed, and only the interval sleep lies between the two.
C18_Witness ==
    /\ pc = "await_post" /\ posts = 3 /\ sent = 0
    /\ FailedPost /\ waits = <<IntervalWait>> /\ now = 2 * interval * 60

(***************************************************************************)
(* agent.py: strings                                                       *)
(*                                                                         *)
(* A string is a sequence of one-character strings over ASCII; the space   *)
(* stands for every whitespace character.                                  *)
(***************************************************************************)
Space == " "
LowerLetters == <<"a", "b", "c", "d", "e", "f", "g", "h", "i", "j", "k", "l", "m",
                  "n", "o", "p", "q", "r", "s", "t", "u", "v", "w", "x", "y", "z">>
UpperLetters == <<"A", "B", "C", "D", "E", "F", "G", "H", "I", "J", "K", "L", "M",
                  "N", "O", "P", "Q", "R", "S", "T", "U", "V", "W", "X", "Y", "Z">>
Digits == <<"0", "1", "2", "3", "4", "5", "6", "7", "8", "9">>

SeqRange(s) == {s[i] : i \in 1..Len(s)}
IndexOf(s, c) == CHOOSE i \in 1..Len(s) : s[i] = c

\* str.lstrip(), str.rstrip(chars) and str.strip()
RECURSIVE str_lstrip(_)
str_lstrip(s) ==
    IF s # <<>> /\ Head(s) = Space THEN str_lstrip(Tail(s)) ELSE s

RECURSIVE str_rstrip(_, _)
str_rstrip(s, c) ==
    IF s # <<>> /\ s[Len(s)] = c
    THEN str_rstrip(SubSeq(s, 1, Len(s) - 1), c)
    ELSE s

str_strip(s) == str_rstrip(str_lstrip(s), Space)

\* str.startswith(prefix)
str_startswith(s, prefix) ==
    Len(s) >= Len(prefix) /\ SubSeq(s, 1, Len(prefix)) = prefix

\* str.upper(): a lower-case letter becomes its capital, nothing else changes
UpperChar(c) ==
    IF c \in SeqRange(LowerLetters)
    THEN UpperLetters[IndexOf(LowerLetters, c)]
    ELSE c

str_upper(s) == [i \in 1..Len(s) |-> UpperChar(s[i])]

\* str.isdigit(): not empty and every character a digit
str_isdigit(s) == s # <<>> /\ \A i \in 1..Len(s) : s[i] \in SeqRange(Digits)

\* int(s) of a string of digits
RECURSIVE int(_)
int(s) ==
    IF s = <<>>
    THEN 0
    ELSE 10 * int(SubSeq(s, 1, Len(s) - 1)) + (IndexOf(Digits, s[Len(s)]) - 1)

\* str(n) of a natural number
RECURSIVE str(_)
str(n) ==
    IF n < 10
    THEN <<Digits[n + 1]>>
    ELSE str(n \div 10) \o <<Digits[(n % 10) + 1]>>

(***************************************************************************)
(* agent.py: validate_tick, validate_amt, cmd_mint                         *)
(***************************************************************************)
\* The result of a validator: the value it returns, or that it raised
\* ValueError.
Raised == [raised |-> TRUE, value |-> <<>>]
Returned(v) == [raised |-> FALSE, value |-> v]

\* line 54: the longest ticker the pattern [A-Z0-9]{1,10} matches
TickMaxLen == 10

\* line 54: re.fullmatch(r"[A-Z0-9]{1,10}", s)
tick_fullmatch(s) ==
    /\ Len(s) >= 1
    /\ Len(s) <= TickMaxLen
    /\ \A i \in 1..Len(s) : s[i] \in SeqRange(UpperLetters) \cup SeqRange(Digits)

validate_tick_NoUpper(t) ==
    LET normalized == str_strip(t)
    IN  IF ~tick_fullmatch(normalized) THEN Raised ELSE Returned(normalized)

\* lines 52-56
validate_tick(t) ==
    LET normalized == str_upper(str_strip(t))
    IN  IF ~tick_fullmatch(normalized) THEN Raised ELSE Returned(normalized)

validate_amt_NoRoundTrip(a) ==
    LET raw == str_strip(a)
    IN  IF ~str_isdigit(raw) THEN Raised
        ELSE IF int(raw) <= 0 THEN Raised
        ELSE Returned(raw)

\* lines 59-63
validate_amt(a) ==
    LET raw == str_strip(a)
    IN  IF ~str_isdigit(raw) THEN Raised
        ELSE IF int(raw) <= 0 THEN Raised
        ELSE Returned(str(int(raw)))

\* lines 78-80: the payload's fields; the rest of the text is fixed
build_mint_post(t, a) == [kind |-> "mint", tick |-> t, amt |-> a]

\* A line that is a validator's message.
ErrorLine(message) == [kind |-> message, tick |-> <<>>, amt |-> <<>>]
TickError == ErrorLine("tick must be 1-10 uppercase letters or digits")
AmtError == ErrorLine("amt must be a positive integer")

\* What no step of agent.py changes: the scheduler.
schedulerVars == <<pc, exit_code, amt, interval_minutes, count, cred, me,
                   min_interval, interval, sent, ok, status, data, wait_s, answer,
                   vstatus, vresult, now, waits, intervalMsg, lastMsg, posts,
                   meCalls, floorCalls, prompts, verifySubmits, tick>>

\* lines 171-180
cmd_mint ==
    /\ a_pc = "cmd_mint"
    /\ LET t == validate_tick(a_args.tick)
           a == validate_amt(a_args.amt)
       IN  IF t.raised
           THEN a_printed' = TickError /\ a_exit' = 1
           ELSE IF a.raised
           THEN a_printed' = AmtError /\ a_exit' = 1
           ELSE /\ a_printed' = build_mint_post(t.value, a.value)
                /\ a_exit' = 0
    /\ a_pc' = "exit"
    /\ UNCHANGED <<a_args, config, a_saves, schedulerVars>>

\* The scheduler is not run.
SchedulerOff ==
    /\ pc = "off"
    /\ exit_code = -1
    /\ amt = 0
    /\ interval_minutes = 0
    /\ count = 0
    /\ cred = "missing"
    /\ me = NoMe
    /\ min_interval = 0
    /\ interval = 0
    /\ sent = 0
    /\ ok = FALSE
    /\ status = 0
    /\ data = NoData
    /\ wait_s = 0
    /\ answer = ""
    /\ vstatus = 0
    /\ vresult = NoResult
    /\ now = 0
    /\ waits = <<>>
    /\ intervalMsg = NoMsg
    /\ lastMsg = NoMsg
    /\ posts = 0
    /\ meCalls = 0
    /\ floorCalls = 0
    /\ prompts = 0
    /\ verifySubmits = 0
    /\ tick = <<>>

\* The arguments of the mint command: every string up to a length over a few
\* characters of each class, and tickers at the pattern's upper length.
MaxTickLen == 3
MaxAmtLen == 3
TickAlphabet == {"a", "W", "7", " ", "-"}
AmtAlphabet == {"0", "1", "7", " ", "x"}
SeqsUpTo(S, n) == UNION {[1..k -> S] : k \in 0..n}
Repeat(c, n) == [i \in 1..n |-> c]
TickInputs ==
    SeqsUpTo(TickAlphabet, MaxTickLen)
        \cup {Repeat("q", TickMaxLen), Repeat("q", TickMaxLen + 1),
              <<Space>> \o Repeat("Z", TickMaxLen) \o <<Space>>}
AmtInputs == SeqsUpTo(AmtAlphabet, MaxAmtLen)
DefaultAmt == <<"1", "0", "0">>

\* agent.py mint --tick T --amt A, one of the two arguments varied at a time
MintInit ==
    /\ SchedulerOff
    /\ a_pc = "cmd_mint"
    /\ a_exit = -1
    /\ a_args \in {[NoArgs EXCEPT !.tick = t, !.amt = DefaultAmt] : t \in TickInputs}
                 \cup {[NoArgs EXCEPT !.tick = DefaultTick, !.amt = a] :
                          a \in AmtInputs}
    /\ a_printed = NoLine
    /\ config = NoConfig
    /\ a_saves = 0

MintNext == cmd_mint

MintSpec == MintInit /\ [][MintNext]_vars

(***************************************************************************)
(* Tickers and amounts                                                     *)
(***************************************************************************)
AlnumChars ==
    SeqRange(LowerLetters) \cup SeqRange(UpperLetters) \cup SeqRange(Digits)

\* 1-10 alphanumeric characters in any mix of case
IsAlnumTicker(t) ==
    Len(t) >= 1 /\ Len(t) <= TickMaxLen /\ SeqRange(t) \subseteq AlnumChars

\* Empty, longer than 10, or with a character that is not alphanumeric
BadTickerForm(u) ==
    u = <<>> \/ Len(u) > TickMaxLen \/ ~(SeqRange(u) \subseteq AlnumChars)

MintDone == a_pc = "exit"
\* cmd_mint has run with the given ticker and a good amount, and the reverse.
TickCase == MintDone /\ a_args.amt = DefaultAmt
AmtCase == MintDone /\ a_args.tick = DefaultTick
MintPrinted == MintDone /\ a_exit = 0 /\ a_printed.kind = "mint"
TickRejected == MintDone /\ a_exit = 1 /\ a_printed = TickError
AmtRejected == MintDone /\ a_exit = 1 /\ a_printed = AmtError

\* What the claim says of accepted tickers: accepted, upper-cased, and
\* validating the result again returns it.
AcceptsAlnumTickers ==
    (TickCase /\ IsAlnumTicker(a_args.tick)) =>
        /\ MintPrinted
        /\ a_printed.tick = str_upper(a_args.tick)
        /\ validate_tick(a_printed.tick) = Returned(a_printed.tick)
        /\ validate_tick(a_printed.tick) = validate_tick(a_args.tick)

\* C15: validate_tick accepts every ticker of 1-10 alphanumeric characters in
\* any mix of case, returns its upper-case form and is idempotent; it rejects
\* every input whose TRIMMED and upper-cased form is empty, longer than 10 or
\* has a non-alphanumeric character.
C15_ValidateTick ==
    /\ AcceptsAlnumTickers
    /\ (TickCase /\ BadTickerForm(str_upper(str_strip(a_args.tick)))) =>
           TickRejected

\* C15 as stated: the rejection is decided on the upper-cased input as given.
C15_RejectsByUppercasedForm ==
    /\ AcceptsAlnumTickers
    /\ (TickCase /\ BadTickerForm(str_upper(a_args.tick))) => TickRejected

\* A mixed-case ticker was accepted and printed in capitals.
C15_Witness ==
    /\ MintPrinted
    /\ a_args.tick = <<"a", "W", "7">>
    /\ a_printed.tick = <<"A", "W", "7">>

\* A string of digits only that denotes a value > 0
IsPositiveDigits(a) == str_isdigit(a) /\ int(a) > 0

\* A string with a non-digit (the empty string too) or one that denotes 0
BadAmountForm(a) == ~str_isdigit(a) \/ int(a) = 0

\* What the claim says of accepted amounts: canonical, the same integer,
\* unchanged by a second normalisation.
AcceptsPositiveAmounts ==
    (AmtCase /\ IsPositiveDigits(a_args.amt)) =>
        /\ MintPrinted
        /\ str_isdigit(a_printed.amt)
        /\ Head(a_printed.amt) # "0"
        /\ int(a_printed.amt) = int(a_args.amt)
        /\ validate_amt(a_printed.amt) = Returned(a_printed.amt)

\* C16: for every digit-only amount that denotes a value > 0, leading zeros or
\* not, validate_amt returns the canonical decimal string of the same integer,
\* which it returns unchanged when given it again; it rejects every string that
\* AFTER TRIMMING has a non-digit, is empty, or denotes 0.
C16_ValidateAmt ==
    /\ AcceptsPositiveAmounts
    /\ (AmtCase /\ BadAmountForm(str_strip(a_args.amt))) => AmtRejected

\* C16 as stated: every string with a non-digit in it is rejected.
C16_RejectsEveryNonDigit ==
    /\ AcceptsPositiveAmounts
    /\ (AmtCase /\ BadAmountForm(a_args.amt)) => AmtRejected

\* An amount with leading zeros was printed without them.
C16_Witness ==
    /\ MintPrinted
    /\ a_args.amt = <<"0", "0", "7">>
    /\ a_printed.amt = <<"7">>

(***************************************************************************)
(* The ticker in the scheduler                                             *)
(***************************************************************************)
\* safe_mint_scheduler.py lines 81-86: the payload's fields, tick and amt as
\* given; the link and the nonce carry neither
mint_content(t, a) == [kind |-> "mint", tick |-> t, amt |-> a]

\* The content of the POST /posts requests submitted so far (lines 126-130):
\* mint_content(args.tick, str(args.amt)), the same for each request.
SubmittedContent ==
    IF posts > 0 THEN {mint_content(tick, str(amt))} ELSE {}

\* --tick values the scheduler is started with: argparse takes any string
SchedulerTickChoices ==
    {DefaultTick, <<"c", "l", "a", "w">>, <<"b", "a", "d", "-", "t">>, <<>>}

\* The scheduler started with good arguments and credentials and any ticker.
TickInit ==
    /\ SchedulerInit(SchedulerTickChoices, {100}, {30}, {1}, {"ok"})
    /\ AgentOff

TickSpec == TickInit /\ [][Next]_vars

\* C14: in the scheduler and in the helper's mint command alike, a ticker that
\* after upper-casing does not fully match [A-Z0-9]{1,10} ends the process
\* with status 1 before any network call, so the ticker of every submitted or
\* printed mint content is 1-10 capitals and digits.
C14_TickerRuleInBothTools ==
    /\ (pc \notin {"off", "main"} /\ ~tick_fullmatch(str_upper(tick))) =>
           /\ pc = "fatal" /\ exit_code = 1
           /\ meCalls = 0 /\ posts = 0
    /\ \A c \in SubmittedContent : tick_fullmatch(c.tick)
    /\ (MintDone /\ ~tick_fullmatch(str_upper(a_args.tick))) => a_exit = 1
    /\ MintPrinted => tick_fullmatch(a_printed.tick)

(***************************************************************************)
(* agent.py: the configuration file and cmd_bind                           *)
(*                                                                         *)
(* The file at CONFIG_PATH is a record: kind says whether it exists and    *)
(* what it holds; when it holds a JSON object, the three keys of the tool  *)
(* are sets ({} when the key is absent) and other is the set of the        *)
(* remaining <<key, value>> pairs.  The dictionary cmd_bind works on has   *)
(* the same fields.                                                        *)
(***************************************************************************)
Slash == "/"
\* line 47
AppKeyPrefix == <<"m", "o", "l", "t", "d", "e", "v", "_">>
\* line 40
HttpPrefix == <<"h", "t", "t", "p", ":", "/", "/">>
HttpsPrefix == <<"h", "t", "t", "p", "s", ":", "/", "/">>

\* lines 38-42
normalize_api_base(api_base) ==
    LET value == str_rstrip(str_strip(api_base), Slash)
    IN  IF ~(str_startswith(value, HttpPrefix) \/ str_startswith(value, HttpsPrefix))
        THEN Raised
        ELSE Returned(value)

\* lines 45-49
validate_app_key(app_key) ==
    LET value == str_strip(app_key)
    IN  IF ~str_startswith(value, AppKeyPrefix) THEN Raised ELSE Returned(value)

EmptyDict == [app_key |-> {}, api_base |-> {}, bot_api_key |-> {}, other |-> {}]

load_config_Fresh(file) == EmptyDict

\* lines 25-31: {} unless the file exists and parses; what parses is returned
\* as it is
load_config(file) ==
    IF file.kind = "json"
    THEN [app_key |-> file.app_key, api_base |-> file.api_base,
          bot_api_key |-> file.bot_api_key, other |-> file.other]
    ELSE EmptyDict

\* lines 34-35: the file after write_text(json.dumps(config))
save_config(c) ==
    [kind |-> "json", app_key |-> c.app_key, api_base |-> c.api_base,
     bot_api_key |-> c.bot_api_key, other |-> c.other]

\* line 94: a bot key was given and is not the empty string
bot_key_given(bot) == \E b \in bot : b # <<>>

\* lines 92-95: the three assignments to the loaded dictionary
bind_config(c, app_key, api_base, bot) ==
    [c EXCEPT !.app_key = {app_key},
              !.api_base = {api_base},
              !.bot_api_key = IF bot_key_given(bot)
                              THEN {str_strip(b) : b \in bot}
                              ELSE @]

AppKeyError == ErrorLine("app key should start with moltdev_")
ApiBaseError == ErrorLine("api-base must start with http:// or https://")
\* An uncaught TypeError: item assignment to what is not a dictionary
TypeErrorLine == ErrorLine("Traceback: TypeError")
\* lines 98-100
BoundLine == [kind |-> "bound", tick |-> <<>>, amt |-> <<>>]

\* lines 83-101
cmd_bind ==
    /\ a_pc = "cmd_bind"
    /\ LET k == validate_app_key(a_args.app_key)
           b == normalize_api_base(a_args.api_base)
       IN  IF k.raised
           THEN /\ a_printed' = AppKeyError /\ a_exit' = 1
                /\ UNCHANGED <<config, a_saves>>
           ELSE IF b.raised
           THEN /\ a_printed' = ApiBaseError /\ a_exit' = 1
                /\ UNCHANGED <<config, a_saves>>
           ELSE IF config.kind = "not_object"
           THEN /\ a_printed' = TypeErrorLine /\ a_exit' = 1
                /\ UNCHANGED <<config, a_saves>>
           ELSE /\ config' = save_config(bind_config(load_config(config), k.value,
                                                     b.value, a_args.bot_api_key))
                /\ a_saves' = a_saves + 1
                /\ a_printed' = BoundLine
                /\ a_exit' = 0
    /\ a_pc' = "exit"
    /\ UNCHANGED <<a_args, schedulerVars>>

\* The arguments of bind and the files it can find.
GoodAppKey == AppKeyPrefix \o <<"k">>
AppKeyChoices ==
    {GoodAppKey, <<Space>> \o GoodAppKey \o <<Space>>, AppKeyPrefix,
     <<"k">> \o AppKeyPrefix, <<"M", "O", "L", "T", "D", "E", "V", "_", "k">>,
     <<"m", "o", "l", "t">>, <<>>}
ApiBaseChoices ==
    {HttpsPrefix \o <<"m">>, HttpPrefix \o <<"m", Slash>>,
     HttpPrefix \o <<"m", Slash, Slash>>,
     <<Space>> \o HttpsPrefix \o <<"m", Slash, Space>>,
     <<"f", "t", "p", ":", "/", "/", "m">>, <<"m">> \o HttpPrefix,
     HttpPrefix, <<>>}
BotKeyChoices == {{}, {<<>>}, {<<Space>>}, {<<"b", "2">>}, {<<Space, "b", "2">>}}
OldAppKey == AppKeyPrefix \o <<"o">>
OldApiBase == HttpPrefix \o <<"o", Slash>>
OldBotKey == <<"b", "1">>
OtherPairs == {<<"note", "n1">>}
ConfigChoices ==
    {[NoConfig EXCEPT !.kind = k] : k \in {"absent", "malformed", "not_object"}}
        \cup [kind : {"json"}, app_key : {{}, {OldAppKey}},
              api_base : {{}, {OldApiBase}}, bot_api_key : {{}, {OldBotKey}},
              other : SUBSET OtherPairs]

\* agent.py bind --app-key K --api-base B [--bot-api-key X]
BindInit ==
    /\ SchedulerOff
    /\ a_pc = "cmd_bind"
    /\ a_exit = -1
    /\ a_args \in {[NoArgs EXCEPT !.app_key = k, !.api_base = b, !.bot_api_key = x] :
                      k \in AppKeyChoices, b \in ApiBaseChoices, x \in BotKeyChoices}
    /\ a_printed = NoLine
    /\ config \in ConfigChoices
    /\ a_saves = 0

BindNext == cmd_bind

BindSpec == BindInit /\ [][BindNext]_vars

(***************************************************************************)
(* Binding and the stored configuration                                    *)
(***************************************************************************)
\* The keys a file holds: none unless it is a JSON object.
StoredKeys(file) == IF file.kind = "json" THEN file ELSE NoConfig

HasUrlScheme(s) == str_startswith(s, HttpPrefix) \/ str_startswith(s, HttpsPrefix)

\* What bind does to the file, given which arguments count as invalid.
BindEffect(invalid) ==
    /\ invalid => (a_exit' = 1 /\ config' = config /\ a_saves' = a_saves)
    /\ (a_exit' = 1) => (config' = config /\ a_saves' = a_saves)
    /\ (a_exit' = 0) =>
          /\ a_saves' = a_saves + 1
          /\ config'.kind = "json"
          /\ config'.app_key = {str_strip(a_args.app_key)}
          /\ \E b \in config'.api_base :
                /\ b = str_rstrip(str_strip(a_args.api_base), Slash)
                /\ b[Len(b)] # Slash
          /\ config'.bot_api_key # StoredKeys(config).bot_api_key =>
                /\ a_args.bot_api_key # {}
                /\ config'.bot_api_key = {str_strip(x) : x \in a_args.bot_api_key}
          /\ a_args.bot_api_key = {} =>
                config'.bot_api_key = StoredKeys(config).bot_api_key
          /\ config'.other = StoredKeys(config).other

\* C20: bind exits with status 1 and writes no file when the app key, trimmed,
\* does not start with the platform prefix, or the API base, TRIMMED AND WITH
\* ITS TRAILING SLASHES REMOVED, does not start with http:// or https://; when
\* it succeeds it writes app_key and api_base (without trailing slash), writes
\* bot_api_key only when one is given, and keeps every other stored key, a
\* stored bot_api_key included.
C20_BindFrame ==
    [][(a_pc = "cmd_bind") =>
          BindEffect(\/ ~str_startswith(str_strip(a_args.app_key), AppKeyPrefix)
                     \/ ~HasUrlScheme(str_rstrip(str_strip(a_args.api_base),
                                                 Slash)))]_vars

\* C20 as stated: the API base is tested as given.
C20_RejectsByGivenApiBase ==
    [][(a_pc = "cmd_bind") =>
          BindEffect(\/ ~str_startswith(str_strip(a_args.app_key), AppKeyPrefix)
                     \/ ~HasUrlScheme(a_args.api_base))]_vars

\* bind succeeded on a file that held a bot key and another key, with no bot
\* key given: both are still there, and the API base lost its slash.
C20_Witness ==
    /\ a_pc = "exit" /\ a_exit = 0 /\ a_saves = 1
    /\ a_args.bot_api_key = {}
    /\ a_args.api_base = HttpPrefix \o <<"m", Slash>>
    /\ config = [kind |-> "json", app_key |-> {GoodAppKey},
                 api_base |-> {HttpPrefix \o <<"m">>},
                 bot_api_key |-> {OldBotKey}, other |-> OtherPairs]

(***************************************************************************)
(* The loop without a bound on its attempts                                *)
(*                                                                         *)
(* For what the loop does in the long run nothing may stop it from making  *)
(* another attempt.  The steps below are SubmitPost, Backoff and Sleep with *)
(* the two counters that grow for ever held at a ceiling: past MaxPosts    *)
(* requests and MaxClock seconds, posts and now read "that many or more".  *)
(***************************************************************************)
MaxClock == 3600
Min(a, b) == IF a <= b THEN a ELSE b

\* line 185
SubmitPostLive ==
    /\ pc = "post"
    /\ posts' = Min(posts + 1, MaxPosts)
    /\ answer' = ""
    /\ vstatus' = 0
    /\ vresult' = NoResult
    /\ prompts' = 0
    /\ verifySubmits' = 0
    /\ pc' = "await_post"
    /\ UNCHANGED <<exit_code, amt, interval_minutes, count, cred, me, min_interval,
                   interval, sent, ok, status, data, wait_s, now, waits,
                   intervalMsg, lastMsg, meCalls, floorCalls>>
    /\ UNCHANGED <<tick, agentVars>>

\* lines 144-145
BackoffLive ==
    /\ pc = "backoff"
    /\ now' = Min(now + wait_s, MaxClock)
    /\ waits' = Append(waits, [kind |-> "backoff", secs |-> wait_s])
    /\ ok' = FALSE
    /\ pc' = "on_result"
    /\ UNCHANGED <<exit_code, amt, interval_minutes, count, cred, me, min_interval,
                   interval, sent, status, data, wait_s, answer, vstatus, vresult,
                   intervalMsg, lastMsg, posts, meCalls, floorCalls, prompts,
                   verifySubmits>>
    /\ UNCHANGED <<tick, agentVars>>

\* line 203
SleepLive ==
    /\ pc = "sleep"
    /\ now' = Min(now + interval * 60, MaxClock)
    /\ waits' = Append(waits, [kind |-> "interval", secs |-> interval * 60])
    /\ pc' = "post"
    /\ UNCHANGED <<exit_code, amt, interval_minutes, count, cred, me, min_interval,
                   interval, sent, ok, status, data, wait_s, answer, vstatus,
                   vresult, intervalMsg, lastMsg, posts, meCalls, floorCalls,
                   prompts, verifySubmits>>
    /\ UNCHANGED <<tick, agentVars>>

LiveInternal ==
    \/ Main
    \/ LoadApiKey
    \/ GetMeSubmit
    \/ CheckClaimed
    \/ MinInterval
    \/ ChooseInterval
    \/ LoopInit
    \/ SubmitPostLive
    \/ RateLimited
    \/ BackoffLive
    \/ PostFailed
    \/ PostCreated
    \/ VerificationCheck
    \/ VerifySubmit
    \/ OnResult
    \/ CheckCount
    \/ SleepLive

LiveNext ==
    \/ LiveInternal
    \/ NetworkReturns
    \/ Prompt

\* A bounded run (--count N, N > 0) started with good arguments and credentials.
LiveInit ==
    /\ SchedulerInit({DefaultTick}, {100}, {30}, {1, 2}, {"ok"})
    /\ AgentOff

\* The thread runs, sleeps end, and every HTTP call returns or raises.
LiveSpec ==
    LiveInit /\ [][LiveNext]_vars /\ WF_vars(LiveInternal) /\ WF_vars(NetworkReturns)

(***************************************************************************)
(* Eventual completion                                                     *)
(***************************************************************************)
\* post_once has just returned True / the loop has returned 0
AttemptSucceeded == pc = "on_result" /\ ok
Completed == pc = "done" /\ exit_code = 0

\* C19: in a bounded run (count N > 0) that has entered the loop, if attempts
\* keep succeeding (at every point of the loop a successful attempt or the end
\* of the run lies ahead) the scheduler reaches DONE with status 0; and no
\* attempt that fails, a 429 included, lowers or resets the success counter:
\* only a successful attempt changes it.
C19_EventualCompletion ==
    /\ [][sent' >= sent]_vars
    /\ [][(pc \in LoopPCs /\ ~AttemptSucceeded) => sent' = sent]_vars
    /\ ([](pc \in LoopPCs => <>(AttemptSucceeded \/ Completed)))
          => ((pc \in LoopPCs /\ count > 0) ~> Completed)

\* A run of two successes ended after at least MaxPosts attempts: some of them
\* failed on the way.
C19_Witness ==
    /\ Completed
    /\ count = 2 /\ sent = 2
    /\ posts = MaxPosts /\ posts > count

====
